---- MODULE Spec2Model ----
(***************************************************************************)
(* Sentinel Orbital Defense: the conjunction screening, maneuver planning  *)
(* and trajectory stitching of main.get_czml, the cached population of     *)
(* main.load_data, and the background refresh loop of app.simulation_loop. *)
(*                                                                         *)
(* Units.  Epochs are whole minutes (a skyfield Time; the code adds        *)
(* fractions of a day, i * STEP_MINUTES / 1440.0).  The ephemeris          *)
(* (skyfield's SGP4 propagation, an external capability) is modelled on a  *)
(* line: an element set is [p0, v] and the position at minute t is         *)
(* p0 + v * t kilometres.  An optional value (Python None or a value) is   *)
(* the empty tuple << >> or the one-element tuple << value >>.             *)
(***************************************************************************)
EXTENDS Integers, Sequences, FiniteSets, TLC

\* ---------------------------------------------------------------- bounds
MaxRuns == 2
MaxFileLen == 1

\* ------------------------------------------------------- program constants
DURATION_HOURS == 24
STEP_MINUTES == 2
COLLISION_THRESHOLD_KM == 200
MANEUVER_LEAD_TIME_MIN == 45
SCREEN_STRIDE == 5
DEBRIS_STRIDE == 2
DEBRIS_CAP == 1200
DV_M_PER_S == 8
STATIC_DEBRIS == 800
SLEEP_SECONDS == 1800

ASSETS ==
  << [name |-> "ISS (ZARYA)",  id |-> "iss",      catnr |-> "25544"],
     [name |-> "HST (HUBBLE)", id |-> "hubble",   catnr |-> "20580"],
     [name |-> "SENTINEL-6",   id |-> "sentinel", catnr |-> "46984"] >>

\* ------------------------------------------------- inputs: element sets
\* The element set a TLE file holds for each asset (what load.tle_file
\* returns as an EarthSatellite).
AssetTle(id) ==
  CASE id = "iss"      -> [name |-> "ISS (ZARYA)",  satnum |-> 25544, p0 |-> 0,     v |-> 5]
    [] id = "hubble"   -> [name |-> "HST",          satnum |-> 20580, p0 |-> 50000, v |-> -5]
    [] id = "sentinel" -> [name |-> "SENTINEL-6",   satnum |-> 46984, p0 |-> 250,   v |-> 5]

\* Debris element sets that may be listed in the two debris files.
\*   DA closes on the ISS at 15 km/min, zero miss distance at minute 700
\*      (Sentinel-6 flies 250 km ahead of the ISS and is reached earlier).
\*   DB closes on Sentinel-6 at 20 km/min, zero miss distance at minute 600,
\*      and is exactly 200 km away at minute 590.
\*   DC passes the ISS at 50 km/min at minute 20, passes Sentinel-6 between
\*      two coarse samples, and meets Hubble at minute 850.
\*   DD passes Hubble at 100 km/min at minute 303, between two coarse
\*      samples; it carries the same catalogue number as DB.
\*   DE closes on Hubble at 15 km/min, zero miss distance at minute 860.
DA == [name |-> "IRIDIUM 33 DEB A",  satnum |-> 33001, p0 |-> 10500, v |-> -10]
DB == [name |-> "COSMOS 2251 DEB B", satnum |-> 22001, p0 |-> 12250, v |-> -15]
DC == [name |-> "IRIDIUM 33 DEB C",  satnum |-> 33003, p0 |-> -1000, v |-> 55]
DD == [name |-> "COSMOS 2251 DEB",   satnum |-> 22001, p0 |-> 19700, v |-> 95]
DE == [name |-> "COSMOS 2251 DEB E", satnum |-> 22005, p0 |-> 37100, v |-> 10]

IridiumCatalog == {DA, DC, DD}
CosmosCatalog == {DB, DE}

\* Sequences without repetition over S, of length at most n.
InjSeqs(S, n) ==
  UNION {{s \in [1..k -> S] : \A i, j \in 1..k : i < j => s[i] # s[j]} : k \in 0..n}

\* A file on disk: missing/unreadable, or readable with its element sets.
FileOf(S) ==
  {[ok |-> FALSE, objs |-> << >>]} \cup
  {[ok |-> TRUE, objs |-> s] : s \in InjSeqs(S, MaxFileLen)}

AssetIds == {ASSETS[i].id : i \in 1..Len(ASSETS)}

\* Which local asset TLE files exist at start: all, all but one, or none.
LocalFiles ==
  {f \in [AssetIds -> BOOLEAN] :
     Cardinality({a \in AssetIds : ~f[a]}) \in {0, 1, Cardinality(AssetIds)}}

VARIABLES
  fs,            \* files on disk: local asset TLEs present, debris files
  net,           \* whether celestrak answers a download
  now,           \* wall clock, minutes
  runs,          \* completed cycles of simulation_loop
  pc,            \* position of simulation_loop / get_czml
  data_cache,    \* main._data_cache
  fleet,         \* get_czml: the per-run fleet list
  start_time,    \* get_czml: start_time
  threat_debris_ids,
  asset_idx,     \* index of the asset the current for-loop is at
  detected,      \* per screened asset: detected_risk at the end of its loop
  evaluated,     \* per screened asset: the (t_idx, debris index) pairs measured
  plan_failed,   \* per screened asset: planning raised
  czml,          \* the packet list being built / returned
  temp_file,     \* simulation_cache.json.tmp
  cache_file,    \* simulation_cache.json
  last_good,     \* the result of the latest cycle that reached app.py:28
  req_pc,        \* position of the /output.czml handler
  req_seen,      \* last_good when the handler last looked at the cache file
  resp           \* the handler's latest response

vars == << fs, net, now, runs, pc, data_cache, fleet, start_time,
           threat_debris_ids, asset_idx, detected, evaluated, plan_failed,
           czml, temp_file, cache_file, last_good, req_pc, req_seen, resp >>

\* the state of the /output.czml handler
reqvars == << req_pc, req_seen, resp >>

\* ------------------------------------------------------------ ephemeris
None == << >>
Some(x) == << x >>

\* sat.at(t).position.km
at(sat, t) == sat.p0 + sat.v * t

\* sat.at(t).velocity, km per minute
velocity(sat, t) == sat.v

Abs(x) == IF x < 0 THEN -x ELSE x

\* np.linalg.norm(my_pos - deb_pos)
Dist(my_pos, deb_pos) == Abs(my_pos - deb_pos)

Sign(x) == IF x < 0 THEN -1 ELSE IF x > 0 THEN 1 ELSE 0

\* ------------------------------------------------------------ time grid
steps == (DURATION_HOURS * 60) \div STEP_MINUTES

\* times[i], i in 0..steps-1, for a run started at start
times(start, i) == start + i * STEP_MINUTES

GridIdx == 0..(steps - 1)

\* range(0, len(times), stride)
Strided(stride) == {i \in GridIdx : i % stride = 0}

\* (t - epoch) * 86400.0
Seconds(t, epoch) == (t - epoch) * 60

\* ------------------------------------------------------------ load_data
\* One asset of the loop at main.py:46-57: the local file, else the download
\* (the nested try), else the asset is skipped (the outer except).
LoadSat(asset, files, online) ==
  IF files.local[asset.id] \/ online THEN Some(AssetTle(asset.id)) ELSE None

LoadFleet(files, online) ==
  LET got == SelectSeq(ASSETS, LAMBDA a : LoadSat(a, files, online) # None)
  IN  [k \in 1..Len(got) |->
         [data |-> got[k], sat |-> LoadSat(got[k], files, online)[1]]]

\* random.sample(real_debris, DEBRIS_CAP): any arrangement of DEBRIS_CAP
\* distinct entries of the list.
Sample(all) ==
  IF Len(all) > DEBRIS_CAP
    THEN {[k \in 1..DEBRIS_CAP |-> all[pick[k]]] :
            pick \in {q \in [1..DEBRIS_CAP -> 1..Len(all)] :
                        \A i, j \in 1..DEBRIS_CAP : i < j => q[i] # q[j]}}
    ELSE {all}

\* main.py:60-68: both files are read inside one try; either failing leaves
\* the run with the empty list.
DebrisRead(files) ==
  IF files.iridium.ok /\ files.cosmos.ok
    THEN files.iridium.objs \o files.cosmos.objs
    ELSE << >>

\* load.tle_file(url, filename=...) stores the download under the local name.
FilesAfterLoad(files, online) ==
  [files EXCEPT !.local = [id \in AssetIds |-> files.local[id] \/ online]]

\* ------------------------------------------------------------- get_czml
\* a fleet list whose entries keep the fields of the previous run
StaleFleet(static_fleet) ==
  [k \in 1..Len(static_fleet) |->
     IF k \in DOMAIN fleet THEN fleet[k]
     ELSE [data |-> static_fleet[k].data, sat |-> static_fleet[k].sat,
           maneuver |-> None, collisions |-> << >>]]

\* main.py:83-90
FreshFleet(static_fleet) ==
  [k \in 1..Len(static_fleet) |->
     [data |-> static_fleet[k].data, sat |-> static_fleet[k].sat,
      maneuver |-> None, collisions |-> << >>]]

\* a threshold test that also accepts a distance equal to the threshold
UnderThresholdInclusive(dist) == dist <= COLLISION_THRESHOLD_KM

\* main.py:116
UnderThreshold(dist) == dist < COLLISION_THRESHOLD_KM

\* a threat set that keeps only the latest identity
ThreatAddReplacing(threat, deb) == {deb.satnum}

\* main.py:118
ThreatAdd(threat, deb) == threat \cup {deb.satnum}

\* an epoch loop that is never left early
OuterBreakNever(risk) == risk # None /\ FALSE

\* main.py:120-121
OuterBreak(risk) == risk # None

\* main.py:112-119: the debris loop at one epoch, from list position d.
\* acc.count is the number of debris measured at this epoch.
RECURSIVE InnerLoop(_, _, _, _, _)
InnerLoop(sat, debris, t, d, acc) ==
  IF d > Len(debris) THEN acc
  ELSE LET dist == Dist(at(sat, t), at(debris[d], t))
       IN  IF UnderThreshold(dist)
             THEN [risk |-> Some([time |-> t, debris |-> debris[d], dist |-> dist]),
                   threat |-> ThreatAdd(acc.threat, debris[d]),
                   count |-> d]
             ELSE InnerLoop(sat, debris, t, d + 1, [acc EXCEPT !.count = d])

\* main.py:109-119: the body of the epoch loop at grid index t_idx
EpochBody(sat, debris, start, t_idx, acc) ==
  LET r == InnerLoop(sat, debris, times(start, t_idx), 1,
                     [risk |-> acc.risk, threat |-> acc.threat, count |-> 0])
  IN  [risk |-> r.risk, threat |-> r.threat,
       evaluated |-> acc.evaluated \cup {<<t_idx, j>> : j \in 1..r.count}]

\* range(0, len(times), SCREEN_STRIDE) has this many entries
CoarseCount == (steps + SCREEN_STRIDE - 1) \div SCREEN_STRIDE

\* main.py:108-121: the epoch loop over the coarse samples lo..hi (grid
\* indices lo*SCREEN_STRIDE .. hi*SCREEN_STRIDE), in ascending order, left
\* as soon as the break at 120-121 is taken.  The range is run as its lower
\* half followed by its upper half, which is the same sequence of bodies.
RECURSIVE OuterLoop(_, _, _, _, _, _)
OuterLoop(sat, debris, start, lo, hi, acc) ==
  IF lo > hi THEN acc
  ELSE IF lo = hi THEN EpochBody(sat, debris, start, lo * SCREEN_STRIDE, acc)
  ELSE LET mid == (lo + hi) \div 2
           first == OuterLoop(sat, debris, start, lo, mid, acc)
       IN  IF OuterBreak(first.risk) THEN first
           ELSE OuterLoop(sat, debris, start, mid + 1, hi, first)

\* main.py:103-121 for one asset
Screen(sat, debris, start, threat) ==
  OuterLoop(sat, debris, start, 0, CoarseCount - 1,
            [risk |-> None, threat |-> threat, evaluated |-> {}])

\* a burn epoch that is not clamped to the simulation start
BurnTimeUnclamped(risk_time, start) == risk_time - MANEUVER_LEAD_TIME_MIN

\* main.py:126-127
BurnTime(risk_time, start) ==
  LET burn_time == risk_time - MANEUVER_LEAD_TIME_MIN
  IN  IF burn_time < start THEN start ELSE burn_time

\* main.py:129-133, Orbit.from_vectors at the burn epoch
OrbitFromVectors(sat, burn_time) ==
  [r0_km |-> at(sat, burn_time), v_km_min |-> velocity(sat, burn_time),
   dv_m_min |-> 0, epoch |-> burn_time]

\* main.py:135-140: DV_M_PER_S (0.008 km/s) along the unit velocity vector
ApplyImpulse(orbit) ==
  [orbit EXCEPT !.dv_m_min = Sign(orbit.v_km_min) * DV_M_PER_S * 60]

\* orbit.propagate(dt_sec * u.s).r, the position in metres (the code takes
\* it in km and multiplies by 1000)
Propagate(orbit, dt_sec) ==
  orbit.r0_km * 1000 + ((orbit.v_km_min * 1000 + orbit.dv_m_min) * dt_sec) \div 60

\* main.py:126-147
PlanManeuver(sat, risk, start) ==
  LET burn_time == BurnTime(risk.time, start)
  IN  [time |-> burn_time,
       orbit_new |-> ApplyImpulse(OrbitFromVectors(sat, burn_time)),
       risk |-> risk,
       type |-> "PROGRADE AVOIDANCE"]

\* a switch to the new orbit at the conjunction epoch instead of the burn epoch
UseNewOrbitAtConjunction(maneuver, t) ==
  maneuver # None /\ t >= maneuver[1].risk.time

\* main.py:208
UseNewOrbit(maneuver, t) == maneuver # None /\ t >= maneuver[1].time

\* main.py:203-214, one epoch of the active trajectory: << seconds, metres >>
ActiveSample(sat, maneuver, t, epoch) ==
  IF UseNewOrbit(maneuver, t)
    THEN << Seconds(t, epoch),
            Propagate(maneuver[1].orbit_new, Seconds(t, maneuver[1].time)) >>
    ELSE << Seconds(t, epoch), at(sat, t) * 1000 >>

\* main.py:205-206, one epoch of the ghost list
GhostSample(sat, t, epoch) == << Seconds(t, epoch), at(sat, t) * 1000 >>

\* a ghost list holding only the epochs from the burn on
GhostEpochsFromBurn(maneuver, start) ==
  IF maneuver = None THEN GridIdx
  ELSE {i \in GridIdx : times(start, i) >= maneuver[1].time}

\* main.py:202: the epochs the ghost list is extended at (every t in times)
GhostEpochs(maneuver, start) == GridIdx

cartesian_active(sat, maneuver, start) ==
  [k \in 1..steps |-> ActiveSample(sat, maneuver, times(start, k - 1), start)]

\* the list is extended once per epoch, in grid order
cartesian_ghost(sat, maneuver, start) ==
  LET idxs == SelectSeq([k \in 1..steps |-> k - 1],
                        LAMBDA i : i \in GhostEpochs(maneuver, start))
  IN  [k \in 1..Len(idxs) |-> GhostSample(sat, times(start, idxs[k]), start)]

\* main.py:271
HasGhost(maneuver) == maneuver # None

\* main.py:216-269: the body packet and the panels packet of one asset
BodyPackets(asset, start) ==
  LET last == times(start, steps - 1)
  IN  << [id |-> << asset.data.id, "active" >>,
          name |-> asset.data.name,
          status |-> IF asset.maneuver # None THEN "EVASIVE MANEUVER"
                                              ELSE "NOMINAL OPERATION",
          availability |-> << start, last >>,
          epoch |-> start,
          cartesian |-> cartesian_active(asset.sat, asset.maneuver, start)],
         [id |-> << asset.data.id, "panels" >>,
          availability |-> << start, last >>,
          reference |-> << asset.data.id, "active" >>] >>

\* main.py:272-291: the ghost packet, available from epoch from
GhostPacket(asset, start, from) ==
  [id |-> << asset.data.id, "ghost" >>,
   availability |-> << from, times(start, steps - 1) >>,
   epoch |-> start,
   cartesian |-> cartesian_ghost(asset.sat, asset.maneuver, start)]

\* main.py:293-311: the burn marker
BurnPacket(asset) ==
  [id |-> << asset.data.id, "burn" >>,
   position |-> at(asset.sat, asset.maneuver[1].time) * 1000]

\* packets of an asset with the ghost emitted whether or not it maneuvers
AssetPacketsGhostAlways(asset, start) ==
  BodyPackets(asset, start) \o
  IF HasGhost(asset.maneuver)
    THEN << GhostPacket(asset, start, asset.maneuver[1].time), BurnPacket(asset) >>
    ELSE << GhostPacket(asset, start, start) >>

\* main.py:173-311: the packets of one asset
AssetPackets(asset, start) ==
  BodyPackets(asset, start) \o
  IF HasGhost(asset.maneuver)
    THEN << GhostPacket(asset, start, asset.maneuver[1].time), BurnPacket(asset) >>
    ELSE << >>

\* main.py:152-168
HeaderPackets(start) ==
  << [id |-> << "document", "" >>,
      interval |-> << start, times(start, steps - 1) >>,
      currentTime |-> start],
     [id |-> << "earth_center", "" >>, position |-> 0] >>

\* main.py:369
IsThreat(deb, threat) == deb.satnum \in threat

\* main.py:368-397: the packet of one debris object
DebrisPacket(deb, threat, start) ==
  [id |-> << "deb", ToString(deb.satnum) >>,
   name |-> deb.name,
   is_threat |-> IsThreat(deb, threat),
   pixelSize |-> IF IsThreat(deb, threat) THEN 10 ELSE 4,
   epoch |-> start,
   cartesian |-> [k \in 1..Cardinality(Strided(DEBRIS_STRIDE)) |->
                    LET t == times(start, (k - 1) * DEBRIS_STRIDE)
                    IN  << Seconds(t, start), at(deb, t) * 1000 >>]]

\* main.py:313-365: the asteroid proxy.  Its positions come from an orbit
\* fixed in the code; only the sample time tags are kept here.
ApophisPacket(start) ==
  [id |-> << "apophis_99942", "" >>,
   availability |-> << start, times(start, steps - 1) >>,
   epoch |-> start,
   cartesian |-> [k \in 1..steps |-> Seconds(times(start, k - 1), start)]]

\* main.py:399-415: STATIC_DEBRIS packets at random positions, kept as one
\* entry that stands for all of them.
StaticPackets == << [id |-> << "static_deb", "*" >>, count |-> STATIC_DEBRIS] >>

\* main.py:313-417
RestPackets(debris, threat, start) ==
  << ApophisPacket(start) >> \o
  [k \in 1..Len(debris) |-> DebrisPacket(debris[k], threat, start)] \o
  StaticPackets

\* main.py:36-74: the possible outcomes of one call
load_data(cache, files, online) ==
  IF cache.fleet # None
    THEN {[cache |-> cache, files |-> files]}
    ELSE {[cache |-> [ts |-> Some("timescale"),
                      fleet |-> Some(LoadFleet(files, online)),
                      debris |-> Some(real)],
           files |-> FilesAfterLoad(files, online)] :
            real \in Sample(DebrisRead(files))}

\* ------------------------------------------------------------------ Init
Init ==
  /\ fs \in [local : LocalFiles,
             iridium : FileOf(IridiumCatalog),
             cosmos : FileOf(CosmosCatalog)]
  /\ net \in BOOLEAN
  /\ now = 0
  /\ runs = 0
  /\ pc = "idle"
  /\ data_cache = [ts |-> None, fleet |-> None, debris |-> None]
  /\ fleet = << >>
  /\ start_time = 0
  /\ threat_debris_ids = {}
  /\ asset_idx = 1
  /\ detected = << >>
  /\ evaluated = << >>
  /\ plan_failed = << >>
  /\ czml = << >>
  /\ temp_file = None
  /\ cache_file = None
  /\ last_good = None
  /\ req_pc = "idle"
  /\ req_seen = None
  /\ resp = None

real_debris == data_cache.debris[1]

\* app.py:16-20 and main.py:78-100: simulation_loop calls get_czml, which
\* loads (or reuses) the population, builds the fresh fleet and the grid.
BeginRun ==
  /\ pc = "idle"
  /\ runs < MaxRuns
  /\ \E out \in load_data(data_cache, fs, net) :
       /\ data_cache' = out.cache
       /\ fs' = out.files
       /\ fleet' = FreshFleet(out.cache.fleet[1])
  /\ start_time' = now
  /\ threat_debris_ids' = {}
  /\ asset_idx' = 1
  /\ detected' = << >>
  /\ evaluated' = << >>
  /\ plan_failed' = << >>
  /\ czml' = << >>
  /\ pc' = "screen"
  /\ UNCHANGED << net, now, runs, temp_file, cache_file >>
  /\ UNCHANGED << last_good, req_pc, req_seen, resp >>

\* main.py:102-147, one asset: no risk, or a risk and a planned maneuver.
ScreenAsset ==
  /\ pc = "screen"
  /\ asset_idx <= Len(fleet)
  /\ LET asset_obj == fleet[asset_idx]
         r == Screen(asset_obj.sat, real_debris, start_time, threat_debris_ids)
     IN  /\ threat_debris_ids' = r.threat
         /\ detected' = Append(detected, r.risk)
         /\ evaluated' = Append(evaluated, r.evaluated)
         /\ plan_failed' = Append(plan_failed, FALSE)
         /\ fleet' = IF r.risk = None THEN fleet
                     ELSE [fleet EXCEPT ![asset_idx].maneuver =
                             Some(PlanManeuver(asset_obj.sat, r.risk[1], start_time))]
  /\ asset_idx' = asset_idx + 1
  /\ UNCHANGED << fs, net, now, runs, pc, data_cache, start_time, czml,
                  temp_file, cache_file >>
  /\ UNCHANGED << last_good, req_pc, req_seen, resp >>

\* main.py:102-140, one asset whose risk is detected and whose orbit
\* construction or impulse raises: nothing in get_czml catches it, so the
\* exception leaves get_czml and reaches the except of simulation_loop.
ScreenAssetPlanRaises ==
  /\ pc = "screen"
  /\ asset_idx <= Len(fleet)
  /\ LET asset_obj == fleet[asset_idx]
         r == Screen(asset_obj.sat, real_debris, start_time, threat_debris_ids)
     IN  /\ r.risk # None
         /\ threat_debris_ids' = r.threat
         /\ detected' = Append(detected, r.risk)
         /\ evaluated' = Append(evaluated, r.evaluated)
         /\ plan_failed' = Append(plan_failed, TRUE)
  /\ pc' = "except"
  /\ UNCHANGED << fs, net, now, runs, data_cache, fleet, start_time, asset_idx,
                  czml, temp_file, cache_file >>
  /\ UNCHANGED << last_good, req_pc, req_seen, resp >>

\* main.py:149-170
BeginRender ==
  /\ pc = "screen"
  /\ asset_idx > Len(fleet)
  /\ czml' = HeaderPackets(start_time)
  /\ asset_idx' = 1
  /\ pc' = "render"
  /\ UNCHANGED << fs, net, now, runs, data_cache, fleet, start_time,
                  threat_debris_ids, detected, evaluated, plan_failed,
                  temp_file, cache_file >>
  /\ UNCHANGED << last_good, req_pc, req_seen, resp >>

\* main.py:173-311, one asset
RenderAsset ==
  /\ pc = "render"
  /\ asset_idx <= Len(fleet)
  /\ czml' = czml \o AssetPackets(fleet[asset_idx], start_time)
  /\ asset_idx' = asset_idx + 1
  /\ UNCHANGED << fs, net, now, runs, pc, data_cache, fleet, start_time,
                  threat_debris_ids, detected, evaluated, plan_failed,
                  temp_file, cache_file >>
  /\ UNCHANGED << last_good, req_pc, req_seen, resp >>

\* main.py:313-417: asteroid, debris, background; get_czml returns
RenderRest ==
  /\ pc = "render"
  /\ asset_idx > Len(fleet)
  /\ czml' = czml \o RestPackets(real_debris, threat_debris_ids, start_time)
  /\ pc' = "write_temp"
  /\ UNCHANGED << fs, net, now, runs, data_cache, fleet, start_time,
                  threat_debris_ids, asset_idx, detected, evaluated,
                  plan_failed, temp_file, cache_file >>
  /\ UNCHANGED << last_good, req_pc, req_seen, resp >>

\* opening the cache file itself for writing, instead of the temp file
OpenCacheForWrite(files) == [files EXCEPT !.cache = Some(<< >>)]

\* app.py:23-24: open(temp_file, 'w') creates or truncates the temp file
OpenForWrite(files) == [files EXCEPT !.temp = Some(<< >>)]

\* app.py:23-24
OpenTemp ==
  /\ pc = "write_temp"
  /\ LET files == OpenForWrite([temp |-> temp_file, cache |-> cache_file])
     IN  /\ temp_file' = files.temp
         /\ cache_file' = files.cache
  /\ pc' = "dump"
  /\ UNCHANGED << fs, net, now, runs, data_cache, fleet, start_time,
                  threat_debris_ids, asset_idx, detected, evaluated,
                  plan_failed, czml >>
  /\ UNCHANGED << last_good, req_pc, req_seen, resp >>

\* app.py:25: json.dump writes the whole result and the file is closed
WriteTemp ==
  /\ pc = "dump"
  /\ temp_file # None
  /\ temp_file' = Some(czml)
  /\ pc' = "replace"
  /\ UNCHANGED << fs, net, now, runs, data_cache, fleet, start_time,
                  threat_debris_ids, asset_idx, detected, evaluated,
                  plan_failed, czml, cache_file >>
  /\ UNCHANGED << last_good, req_pc, req_seen, resp >>

\* app.py:25 and 29: json.dump raises part-way (the disk is full, say); the
\* temp file keeps what was written and the except of the loop is reached.
WriteTempRaises ==
  /\ pc = "dump"
  /\ \E n \in {0, Len(czml) - 1} : temp_file' = Some(SubSeq(czml, 1, n))
  /\ pc' = "except"
  /\ UNCHANGED << fs, net, now, runs, data_cache, fleet, start_time,
                  threat_debris_ids, asset_idx, detected, evaluated,
                  plan_failed, czml, cache_file >>
  /\ UNCHANGED << last_good, req_pc, req_seen, resp >>

\* app.py:26-28
ReplaceCache ==
  /\ pc = "replace"
  /\ cache_file' = temp_file
  /\ temp_file' = None
  /\ pc' = "sleep"
  /\ UNCHANGED << fs, net, now, runs, data_cache, fleet, start_time,
                  threat_debris_ids, asset_idx, detected, evaluated,
                  plan_failed, czml >>
  /\ last_good' = Some(czml)
  /\ UNCHANGED reqvars

\* app.py:29-30
HandleError ==
  /\ pc = "except"
  /\ pc' = "sleep"
  /\ UNCHANGED << fs, net, now, runs, data_cache, fleet, start_time,
                  threat_debris_ids, asset_idx, detected, evaluated,
                  plan_failed, czml, temp_file, cache_file >>
  /\ UNCHANGED << last_good, req_pc, req_seen, resp >>

\* app.py:33
Sleep ==
  /\ pc = "sleep"
  /\ now' = now + SLEEP_SECONDS \div 60
  /\ runs' = runs + 1
  /\ pc' = "idle"
  /\ UNCHANGED << fs, net, data_cache, fleet, start_time, threat_debris_ids,
                  asset_idx, detected, evaluated, plan_failed, czml,
                  temp_file, cache_file >>
  /\ UNCHANGED << last_good, req_pc, req_seen, resp >>

Next ==
  \/ BeginRun
  \/ ScreenAsset
  \/ ScreenAssetPlanRaises
  \/ BeginRender
  \/ RenderAsset
  \/ RenderRest
  \/ OpenTemp
  \/ WriteTemp
  \/ ReplaceCache
  \/ HandleError
  \/ Sleep

Spec == Init /\ [][Next]_vars

\* -------------------------------------------------- the /output.czml route
\* app.py:61-67
Initializing ==
  [status |-> 503,
   body |-> << [id |-> << "document", "" >>,
                description |-> "Simulation initializing... please retry in 30 seconds."] >>]

\* app.py:56, 61-67: a request arrives, the cache file does not exist
RequestInitializing ==
  /\ req_pc \in {"idle", "done"}
  /\ cache_file = None
  /\ resp' = Some(Initializing)
  /\ req_seen' = last_good
  /\ req_pc' = "done"
  /\ UNCHANGED << fs, net, now, runs, pc, data_cache, fleet, start_time,
                  threat_debris_ids, asset_idx, detected, evaluated,
                  plan_failed, czml, temp_file, cache_file, last_good >>

\* app.py:56: a request arrives, the cache file exists
RequestExists ==
  /\ req_pc \in {"idle", "done"}
  /\ cache_file # None
  /\ req_pc' = "open"
  /\ UNCHANGED << fs, net, now, runs, pc, data_cache, fleet, start_time,
                  threat_debris_ids, asset_idx, detected, evaluated,
                  plan_failed, czml, temp_file, cache_file, last_good,
                  req_seen, resp >>

\* app.py:58-60: the file is opened, loaded and returned
RequestRead ==
  /\ req_pc = "open"
  /\ cache_file # None
  /\ resp' = Some([status |-> 200, body |-> cache_file[1]])
  /\ req_seen' = last_good
  /\ req_pc' = "done"
  /\ UNCHANGED << fs, net, now, runs, pc, data_cache, fleet, start_time,
                  threat_debris_ids, asset_idx, detected, evaluated,
                  plan_failed, czml, temp_file, cache_file, last_good >>

\* The refresh loop, with the failure of the dump, and the requests, started
\* with every local asset file present and both debris files readable.
InitServe ==
  /\ Init
  /\ \A id \in AssetIds : fs.local[id]
  /\ ~net
  /\ fs.iridium.ok /\ Len(fs.iridium.objs) <= 1
  /\ fs.cosmos.ok /\ Len(fs.cosmos.objs) <= 1

NextServe ==
  \/ Next
  \/ WriteTempRaises
  \/ RequestInitializing
  \/ RequestExists
  \/ RequestRead

ServeSpec == InitServe /\ [][NextServe]_vars


\* ---------------------------------------------------------------- claims
Screened == 1..Len(detected)

\* the distance of asset k to debris list entry d at grid index i
SampledDist(k, i, d) ==
  Dist(at(fleet[k].sat, times(start_time, i)),
       at(real_debris[d], times(start_time, i)))

\* the (grid index, debris position) pairs of the coarse samples, and those
\* of them under the threshold for asset k
CoarsePairs == Strided(SCREEN_STRIDE) \X (1..Len(real_debris))
UnderPairs(k) == {p \in CoarsePairs : SampledDist(k, p[1], p[2]) < COLLISION_THRESHOLD_KM}

\* p comes before q in time-major, debris-list-minor order (or is q)
Before(p, q) == p[1] < q[1] \/ (p[1] = q[1] /\ p[2] <= q[2])

\* C1: the screening loop reports a conjunction for an asset iff some coarse
\* (epoch, debris) sample is strictly under 200 km, and the reported epoch,
\* debris and distance are those of the first such pair in time-major,
\* debris-list-minor order.
C1_FirstHitReported ==
  \A k \in Screened :
    /\ (detected[k] # None) <=> (UnderPairs(k) # {})
    /\ detected[k] # None =>
         \E p \in UnderPairs(k) :
           /\ \A q \in UnderPairs(k) : Before(p, q)
           /\ detected[k][1].time = times(start_time, p[1])
           /\ detected[k][1].debris = real_debris[p[2]]
           /\ detected[k][1].dist = SampledDist(k, p[1], p[2])

\* C1 witness: an asset whose reported conjunction is not the closest coarse
\* sample (a later pair is closer), and which has a pair under the threshold
\* on the full grid only before it.
C1_Witness ==
  \E k \in Screened :
    /\ detected[k] # None
    /\ \E q \in UnderPairs(k) : SampledDist(k, q[1], q[2]) < detected[k][1].dist
    /\ \E i \in GridIdx, d \in 1..Len(real_debris) :
         /\ times(start_time, i) < detected[k][1].time
         /\ SampledDist(k, i, d) < COLLISION_THRESHOLD_KM

Max(a, b) == IF a >= b THEN a ELSE b

Maneuvered == {k \in 1..Len(fleet) : fleet[k].maneuver # None}

\* C2: for every maneuvered asset the burn epoch is
\* max(start, conjunction epoch - 45 min), so it lies between the simulation
\* start and the conjunction epoch; a conjunction at start + 10 h gives a burn
\* at start + 9 h 15 min, one before start + 45 min a burn at the start.
C2_BurnEpoch ==
  \A k \in Maneuvered :
    LET m == fleet[k].maneuver[1]
        conj == m.risk.time
    IN  /\ m.time = Max(start_time, conj - MANEUVER_LEAD_TIME_MIN)
        /\ start_time <= m.time /\ m.time <= conj
        /\ conj = start_time + 10 * 60 => m.time = start_time + 9 * 60 + 15
        /\ conj < start_time + 45 => m.time = start_time

\* C2 witness: one asset maneuvers for a conjunction at start + 10 h and
\* another for a conjunction less than 45 min after the start.
C2_Witness ==
  /\ \E k \in Maneuvered : fleet[k].maneuver[1].risk.time = start_time + 10 * 60
  /\ \E k \in Maneuvered : /\ fleet[k].maneuver[1].risk.time < start_time + 45
                           /\ fleet[k].maneuver[1].risk.time > start_time

\* the positions in czml of the packets with this id
PacketsWithId(id) == {p \in 1..Len(czml) : czml[p].id = id}

\* the original (ephemeris) sample of asset k at grid index i
OriginalSample(k, i) ==
  << (times(start_time, i) - start_time) * 60,
     at(fleet[k].sat, times(start_time, i)) * 1000 >>

\* C3: for every maneuvered asset, the active sample at each grid epoch
\* strictly before the burn epoch is the original sample, and the sample at
\* each epoch at or after the burn epoch is the new orbit propagated by the
\* time elapsed since the burn.
C3_ActiveSplicedAtBurn ==
  \A k \in Maneuvered :
    \A p \in PacketsWithId(<< fleet[k].data.id, "active" >>) :
      LET m == fleet[k].maneuver[1]
      IN  /\ Len(czml[p].cartesian) = steps
          /\ \A i \in GridIdx :
               LET t == times(start_time, i)
               IN  czml[p].cartesian[i + 1] =
                     IF t < m.time
                       THEN OriginalSample(k, i)
                       ELSE << (t - start_time) * 60,
                               Propagate(m.orbit_new, (t - m.time) * 60) >>

\* C3 witness: a rendered maneuvered asset whose burn is after the start, and
\* whose new orbit has left the original path by the end of the grid.
C3_Witness ==
  \E k \in Maneuvered :
    \E p \in PacketsWithId(<< fleet[k].data.id, "active" >>) :
      /\ fleet[k].maneuver[1].time > start_time
      /\ czml[p].cartesian[1] = OriginalSample(k, 0)
      /\ czml[p].cartesian[steps] # OriginalSample(k, steps - 1)

\* C4: an asset for which screening detects no conjunction has no maneuver,
\* its active trajectory is the original one at every grid epoch, and no
\* ghost and no burn packet is emitted for it.
C4_NominalWithoutConjunction ==
  \A k \in Screened :
    detected[k] = None =>
      /\ fleet[k].maneuver = None
      /\ PacketsWithId(<< fleet[k].data.id, "ghost" >>) = {}
      /\ PacketsWithId(<< fleet[k].data.id, "burn" >>) = {}
      /\ \A p \in PacketsWithId(<< fleet[k].data.id, "active" >>) :
           /\ Len(czml[p].cartesian) = steps
           /\ \A i \in GridIdx : czml[p].cartesian[i + 1] = OriginalSample(k, i)

\* C4 witness: a finished run in which one asset has no conjunction and is
\* rendered, while another asset of the same run maneuvers.
C4_Witness ==
  /\ pc = "write_temp"
  /\ \E k \in Screened :
       /\ detected[k] = None
       /\ PacketsWithId(<< fleet[k].data.id, "active" >>) # {}
  /\ Maneuvered # {}

\* the identities named in the conjunctions detected so far in this run
DetectedIds == {detected[k][1].debris.satnum : k \in {j \in Screened : detected[j] # None}}

DebrisPackets == {p \in 1..Len(czml) : czml[p].id[1] = "deb"}

\* C5: the threat set is exactly the set of identities of the debris named in
\* the assets' detected conjunctions, and a debris packet is highlighted iff
\* its identity is in that set.
C5_ThreatSetExact ==
  /\ threat_debris_ids = DetectedIds
  /\ \A p \in DebrisPackets :
       \A d \in 1..Len(real_debris) :
         czml[p].id[2] = ToString(real_debris[d].satnum) =>
           /\ czml[p].is_threat <=> (real_debris[d].satnum \in DetectedIds)
           /\ czml[p].pixelSize = IF real_debris[d].satnum \in DetectedIds THEN 10 ELSE 4

\* C5 witness: two assets have a conjunction, and the rendered run highlights
\* one debris packet and leaves another unhighlighted.
C5_Witness ==
  /\ Cardinality({k \in Screened : detected[k] # None}) >= 2
  /\ \E p \in DebrisPackets : czml[p].is_threat
  /\ \E p \in DebrisPackets : ~czml[p].is_threat

\* C6: when planning raises for an asset with a detected conjunction, the run
\* is not aborted: it never reaches the exception handler of the refresh
\* loop, and the result of the cycle still holds that asset's (nominal)
\* trajectory packet.
C6_PlanningFailureContained ==
  \A k \in Screened :
    plan_failed[k] =>
      /\ pc # "except"
      /\ pc = "sleep" => PacketsWithId(<< fleet[k].data.id, "active" >>) # {}

GhostPacketsOf(k) == PacketsWithId(<< fleet[k].data.id, "ghost" >>)

\* C7 as stated: the ghost trajectory of a maneuvered asset holds exactly the
\* original samples of the grid epochs at or after the burn epoch, and none
\* for an earlier epoch.
C7_GhostOnlyFromBurn ==
  \A k \in Maneuvered :
    \A p \in GhostPacketsOf(k) :
      LET burn == fleet[k].maneuver[1].time
          kept == {i \in GridIdx : times(start_time, i) >= burn}
      IN  /\ Len(czml[p].cartesian) = Cardinality(kept)
          /\ \A j \in 1..Len(czml[p].cartesian) :
               /\ czml[p].cartesian[j][1] >= (burn - start_time) * 60
               /\ \E i \in kept : czml[p].cartesian[j] = OriginalSample(k, i)

\* C7 amended: the ghost packet of a maneuvered asset holds the original
\* sample of every grid epoch, those before the burn epoch included, each
\* equal to the ephemeris position at its epoch; only the packet's
\* availability interval starts at the burn epoch.
C7_GhostWholeGrid ==
  \A k \in Maneuvered :
    \A p \in GhostPacketsOf(k) :
      /\ Len(czml[p].cartesian) = steps
      /\ \A i \in GridIdx : czml[p].cartesian[i + 1] = OriginalSample(k, i)
      /\ czml[p].availability =
           << fleet[k].maneuver[1].time, times(start_time, steps - 1) >>

\* C7 witness: a ghost packet of an asset whose burn is after the start.
C7_Witness ==
  \E k \in Maneuvered :
    /\ GhostPacketsOf(k) # {}
    /\ fleet[k].maneuver[1].time > start_time

\* C8: every run starts with each asset having no conjunction and no
\* maneuver and with an empty threat set, and once the population is cached
\* no step changes the cache.
C8_RunsStartClean ==
  [][/\ (pc = "idle" /\ pc' = "screen") =>
          /\ \A k \in 1..Len(fleet') :
               fleet'[k].maneuver = None /\ fleet'[k].collisions = << >>
          /\ Len(fleet') = Len(data_cache'.fleet[1])
          /\ threat_debris_ids' = {}
          /\ detected' = << >>
     /\ data_cache.fleet # None => data_cache' = data_cache]_vars

\* C8 witness: a later run has just started on the cached population, and
\* the run before it published a result holding a ghost (a maneuver).
C8_Witness ==
  /\ runs >= 1
  /\ pc = "screen"
  /\ asset_idx = 1
  /\ fleet # << >>
  /\ cache_file # None
  /\ \E p \in 1..Len(cache_file[1]) : cache_file[1][p].id[2] = "ghost"

\* C9: a load failure is isolated to the object it concerns: every asset
\* whose elements could be obtained is in the cached fleet, and every debris
\* object of a debris file that could be read is in the cached debris list.
C9_LoadFailuresIsolated ==
  data_cache.fleet # None =>
    /\ \A a \in 1..Len(ASSETS) :
         fs.local[ASSETS[a].id] =>
           \E k \in 1..Len(data_cache.fleet[1]) :
             data_cache.fleet[1][k].data = ASSETS[a]
    /\ \A file \in {fs.iridium, fs.cosmos} :
         file.ok =>
           \A j \in 1..Len(file.objs) :
             \E d \in 1..Len(real_debris) : real_debris[d] = file.objs[j]

\* the (grid index, list position) of the conjunction detected for asset k
HitPair(k) ==
  << (detected[k][1].time - start_time) \div STEP_MINUTES,
     CHOOSE d \in 1..Len(real_debris) : real_debris[d] = detected[k][1].debris >>

\* C10: screening of an asset stops at its first hit: the hit is the last
\* pair measured for the asset, so no later debris at that epoch and no later
\* epoch is measured; the asset's maneuver is the one planned for that single
\* conjunction; and the threat set holds at most one identity per asset with
\* a conjunction.
C10_StopsAtFirstHit ==
  /\ \A k \in Screened :
       /\ detected[k] # None =>
            /\ HitPair(k) \in evaluated[k]
            /\ \A q \in evaluated[k] : Before(q, HitPair(k))
       /\ (k <= Len(fleet) /\ fleet[k].maneuver # None) =>
            /\ detected[k] # None
            /\ fleet[k].maneuver[1].risk = detected[k][1]
  /\ Cardinality(threat_debris_ids) <=
       Cardinality({k \in Screened : detected[k] # None})

\* C10 witness: an asset is hit at a coarse sample after the first, by a
\* debris that is not the last of the list, with later coarse samples left.
C10_Witness ==
  \E k \in Screened :
    /\ detected[k] # None
    /\ HitPair(k)[1] > 0
    /\ HitPair(k)[1] + SCREEN_STRIDE < steps
    /\ HitPair(k)[2] < Len(real_debris)
    /\ evaluated[k] # {}

====
